---- MODULE Spec2Model ----
(***************************************************************************)
(* A model of PcaPsfDeterminer.determinePsf                                 *)
(* (python/lsst/meas/algorithms/pcaPsfDeterminer.py): the iterative robust  *)
(* PSF fit.  Candidates are numbered 1..nCand in the order in which the     *)
(* spatial cell set yields them (cell by cell, in each cell's own order);   *)
(* that order is the same in every traversal of one run.                    *)
(*                                                                          *)
(* The fit routines of algorithmsLib and the statistics of afwMath are      *)
(* external: what they return is chosen nondeterministically from small     *)
(* sets.  Debug display and prompting are off (display = False), so the     *)
(* interactive "n" reply that leaves the loop never occurs.                 *)
(*                                                                          *)
(* Chi-squares and residuals are integers; residuals, means and standard    *)
(* deviations are in units of 1.0e-4.                                       *)
(***************************************************************************)
EXTENDS Integers, Sequences, FiniteSets, TLC

\* ------------------------------------------------------------------ bounds

\* The largest number of PSF candidates handed to determinePsf.
MaxCand == 3

\* The largest configured iteration count (nIterForPsf).
MaxIter == 2

\* The largest pool and the largest iteration count of the rejection-schedule
\* specification.
MaxPool == 10

MaxRounds == 5

\* The largest number of calls of determinePsf on one determiner.
MaxCalls == 2

\* The largest number of candidates of the runs that keep the spatial pass's
\* residuals.
MaxCandSpatial == 2

\* The largest number of records of the SourceCatalog handed to run.
MaxSources == 3

\* ------------------------------------------------------- values and config

\* A float that is not a number (numpy.isnan is true of it and every
\* comparison with it is false).
NaN == 999

\* The chi-square of a candidate that no fit has visited yet (the largest
\* double; the display code tests chi2 > 1e100 for it).
ChiUnset == 900

\* policy.get("reducedChi2ForPsfCandidates")
Chi2Threshold == 1

\* policy.get("spatialReject")
SpatialRejectSigma == 2

\* policy.get("nEigenComponents"): kernel.getNKernelParameters()
NKernelParameters == 2

\* rms = max(1.0e-4, rms), in units of 1.0e-4
RmsFloor == 1

\* if self._kernelSize >= 15: the size is used as it is configured
AbsoluteSizeThreshold == 15

\* The chi-squares a fit can give a candidate.
ChiVals == {-1, 1, 2, NaN}

\* The residuals (normalised fit weight - predicted weight) of a candidate for
\* one kernel component, and the clipped mean and standard deviation that
\* afwMath.makeStatistics can return for a column of them.
ResVals == {-3, 0, 4}

MeanVals == {0, 1}

RmsVals == {0, 2}

Statuses == {"UNKNOWN", "GOOD", "BAD"}

\* The semi-major axes (axes.getA()) a candidate's source can have.
AxisVals == {1, 2, 3, 4, 9}

\* The values of policy.get("kernelSize"), policy.get("kernelSizeMin") and
\* policy.get("kernelSizeMax") of the kernel-sizing specification.
KernelSizes == {1, 4, 5, 14, 15, 16}

KernelSizeMins == {5, 6}

KernelSizeMaxs == {11, 99}

\* The policies of the kernel-sizing specification, and the two the loop is
\* run with: one whose kernelSize is scaled and one whose kernelSize is used
\* as it is.
Policies ==
    [kernelSize : KernelSizes, kernelSizeMin : KernelSizeMins,
     kernelSizeMax : KernelSizeMaxs]

LoopPolicies ==
    {p \in Policies : p.kernelSize \in {5, 15} /\ p.kernelSizeMin = 5
                                               /\ p.kernelSizeMax = 99}

\* ----------------------------------------------------------------- helpers

Range(s) == {s[i] : i \in 1..Len(s)}

Min(a, b) == IF a < b THEN a ELSE b

Max(a, b) == IF a > b THEN a ELSE b

Fabs(x) == IF x < 0 THEN -x ELSE x

Reverse(s) == [i \in 1..Len(s) |-> s[Len(s) + 1 - i]]

\* float.__lt__: false as soon as one side is NaN.
Lt(a, b) == a # NaN /\ b # NaN /\ a < b

\* float.__gt__
Gt(a, b) == Lt(b, a)

\* list.sort(key=..., reverse=True) of CPython 2, for lists shorter than 64
\* (one run, then binary insertion).  The list is decorated: its elements are
\* <<key, value>> and only keys are compared, with Lt.
RECURSIVE RunLen(_, _, _)
RunLen(s, n, desc) ==
    IF n >= Len(s) THEN n
    ELSE IF Lt(s[n + 1][1], s[n][1]) = desc THEN RunLen(s, n + 1, desc)
    ELSE n

\* count_run: <<length of the run the list starts with, whether it descends>>
CountRun(s) ==
    IF Len(s) = 1 THEN <<1, FALSE>>
    ELSE LET desc == Lt(s[2][1], s[1][1])
         IN  <<RunLen(s, 2, desc), desc>>

\* binarysort's search: where pivot goes in the sorted s[l..r-1]
RECURSIVE BinarySearch(_, _, _, _)
BinarySearch(s, pivot, l, r) ==
    LET p  == l + ((r - l) \div 2)
        lt == Lt(pivot[1], s[p][1])
        l2 == IF lt THEN l ELSE p + 1
        r2 == IF lt THEN p ELSE r
    IN  IF l2 < r2 THEN BinarySearch(s, pivot, l2, r2) ELSE l2

RECURSIVE BinarySort(_, _)
BinarySort(s, start) ==
    IF start > Len(s) THEN s
    ELSE LET pivot == s[start]
             l     == BinarySearch(s, pivot, 1, start)
             t     == SubSeq(s, 1, l - 1) \o <<pivot>> \o SubSeq(s, l, start - 1)
                        \o SubSeq(s, start + 1, Len(s))
         IN  BinarySort(t, start + 1)

ListSort(s) ==
    IF Len(s) < 2 THEN s
    ELSE LET cr  == CountRun(s)
             run == IF cr[2]
                    THEN Reverse(SubSeq(s, 1, cr[1])) \o SubSeq(s, cr[1] + 1, Len(s))
                    ELSE s
         IN  BinarySort(run, cr[1] + 1)

\* reverse=True: the list is reversed, sorted, and reversed again.
ListSortReverse(s) == Reverse(ListSort(Reverse(s)))

\* The values of a decorated list.
Undecorate(s) == [i \in 1..Len(s) |-> s[i][2]]

\* The candidates of the set c, as the cell set yields them.
RECURSIVE InCellOrder(_, _)
InCellOrder(c, n) ==
    IF n = 0 THEN <<>>
    ELSE IF n \in c THEN Append(InCellOrder(c, n - 1), n)
    ELSE InCellOrder(c, n - 1)


\* -------------------------------------------------------------------- state

VARIABLES
    pc,             \* where determinePsf is
    error,          \* the exception that ended the run, or "none"
    nCand,          \* len(psfCandidateList)
    nIterForPsf,    \* self._nIterForPsf
    iter,           \* the loop variable of "for iter in range(self._nIterForPsf)"
    status,         \* cand.getStatus() of every candidate of psfCellSet
    chi2,           \* cand.getChi2() of every candidate of psfCellSet
    psf,            \* psf: the number of the fit that made it and the candidates it used
    badCandidates,  \* badCandidates, after its sort
    numBad,         \* numBad
    candidates,     \* candidates: the candidates that have a row in residuals
    k,              \* the loop variable of "for k in range(kernel.getNKernelParameters())"
    numGoodStars,   \* numGoodStars
    numAvailStars,  \* numAvailStars
    returned,       \* the psf determinePsf returned (fit 0: nothing returned yet)
    nFit,           \* history: calls of _fitPsf so far
    nReset,         \* history: resets to UNKNOWN so far
    nChi2,          \* history: chi-square rejection passes so far
    nSpatial,       \* history: spatial rejection passes finished so far
    chiMarked,      \* history: the candidates the chi-square rule set BAD in this round
    rejectedIn,     \* history: per round begun, the candidates either rule set BAD in it
    sP, sK, sIter,  \* the rejection schedule alone: pool size, iterations, round
    sChi, sSpatial, \* the numbers each rule set BAD in the rounds so far
    policy,         \* the policy's kernelSize, kernelSizeMin and kernelSizeMax
    sizes,          \* sizes: axes.getA() of every candidate's source, in list order
    kernelSize,     \* self._kernelSize
    psfCellSet,     \* the candidates inserted in psfCellSet
    stampWidth,     \* the width getImage() gives a stamp (0: the class default)
    stampHeight,    \* the height getImage() gives a stamp (0: the class default)
    psfStar,        \* whether the source of a candidate has the PSFSTAR flag
    nSetWidth,      \* history: calls of setWidth so far
    nSetHeight,     \* history: calls of setHeight so far
    stampDims,      \* history: <<width, height>> of every stamp getImage() returned
    noStamp,        \* history: the candidates whose getImage() raised in this round
    nCall,          \* history: calls of determinePsf on this determiner so far
    kernelSizeUsed, \* history: self._kernelSize after the sizing of every call
    keepResiduals,  \* history: whether the spatial pass keeps what it read
    spatialLog,     \* history: per component of this round, the column and its statistics
    config,         \* a SourceMeasurementConfig
    validated,      \* how config.validate() ended ("none": not called)
    mpc,            \* where SourceMeasurementTask.run is
    apCorr,         \* the apCorr argument of run
    fluxKeys,       \* self.fluxKeys: the flux fields the aperture correction scales
    sources,        \* the records of the SourceCatalog
    mi,             \* the number of records the running "for ... in sources" has handled
    fluxMeasured,   \* history: the flux self.measurer.apply gave every record
    sdqaRatingSet,  \* the sdqaRatingSet argument: whether one was supplied, and its ratings
    fitChi2         \* fitChi2, named by the number of the fit that returned it (0: none yet)

loopVars == <<pc, error, nCand, nIterForPsf, iter, status, chi2, psf, badCandidates,
              numBad, candidates, k, numGoodStars, numAvailStars, returned>>

historyVars == <<nFit, nReset, nChi2, nSpatial, chiMarked, rejectedIn>>

scheduleVars == <<sP, sK, sIter, sChi, sSpatial>>

sizingVars == <<policy, sizes, kernelSize, psfCellSet, stampWidth, stampHeight>>

flagVars == <<psfStar>>

stampHistoryVars == <<nSetWidth, nSetHeight, stampDims, noStamp>>

callVars == <<nCall, kernelSizeUsed>>

spatialLogVars == <<keepResiduals, spatialLog>>

measurementVars == <<config, validated, mpc, apCorr, fluxKeys, sources, mi, fluxMeasured>>

sdqaVars == <<sdqaRatingSet, fitChi2>>

vars == <<loopVars, historyVars, scheduleVars, sizingVars, flagVars, stampHistoryVars,
          callVars, spatialLogVars, measurementVars, sdqaVars>>

Cands == 1..nCand

\* sdqaRatingSet=None, the default: no rating set is supplied.
NoRatingSet == [supplied |-> FALSE, ratings |-> <<>>]

\* An lsst.sdqa.SdqaRatingSet() with no rating yet.
EmptyRatingSet == [supplied |-> TRUE, ratings |-> <<>>]

NoPsf == [fit |-> 0, stars |-> {}]

\* Whether the source of candidate c has the PSFSTAR flag when determinePsf is
\* entered: the first candidate's source has it (from an earlier run), the
\* others do not.
FlaggedAtEntry(c) == c = 1

\* ------------------------------------------------------------ the kernel size

\* numpy.sort, on which numpy.median rests
SortedSizes(s) == Undecorate(ListSort([i \in 1..Len(s) |-> <<s[i], s[i]>>]))

\* Twice numpy.median(s): the middle element of the sorted array, or the mean
\* of the two middle elements when the length is even.
TwiceMedian(s) ==
    LET t == SortedSizes(s)
        n == Len(s)
    IN  IF n % 2 = 1 THEN 2 * t[(n + 1) \div 2]
        ELSE t[n \div 2] + t[n \div 2 + 1]

\* int(ks * numpy.sqrt(m)) for m = twiceM / 2, without the half added: the
\* largest n with n <= ks * sqrt(m), that is n * n * 2 <= ks * ks * twiceM.
IntScaledTruncated(ks, twiceM) ==
    CHOOSE n \in 0..(ks * twiceM + 1) :
        /\ 2 * n * n <= ks * ks * twiceM
        /\ 2 * (n + 1) * (n + 1) > ks * ks * twiceM

\* int(ks * numpy.sqrt(m) + 0.5) for m = twiceM / 2 and ks >= 0: the largest n
\* with n - 0.5 <= ks * sqrt(m), that is n = 0 or
\* (2 * n - 1)^2 <= 2 * ks^2 * twiceM.
IntScaled(ks, twiceM) ==
    CHOOSE n \in 0..(ks * twiceM + 1) :
        /\ n = 0 \/ (2 * n - 1) * (2 * n - 1) <= 2 * ks * ks * twiceM
        /\ (2 * n + 1) * (2 * n + 1) > 2 * ks * ks * twiceM

\* The test with > in place of >=.
UseAbsoluteSizeAbove(ks) == ks > AbsoluteSizeThreshold

\* if self._kernelSize >= 15
UseAbsoluteSize(ks) == ks >= AbsoluteSizeThreshold

\* if self._kernelSize < self._kernelSizeMin: ...; if self._kernelSize >
\* self._kernelSizeMax: ... (the two tests in this order)
ClipKernelSize(ks, lo, hi) ==
    LET a == IF ks < lo THEN lo ELSE ks
    IN  IF a > hi THEN hi ELSE a

\* self._kernelSize after the sizing, from self._kernelSize before it
NewKernelSize(ks, lo, hi, s) ==
    IF UseAbsoluteSize(ks) THEN ks
    ELSE ClipKernelSize(2 * IntScaled(ks, TwiceMedian(s)) + 1, lo, hi)

\* ------------------------------------------------------ the pieces of a round

\* A loop that also stops once a round has rejected nothing (an exit on
\* convergence), which the code does not have.
LoopContinuesUntilConverged(i) ==
    i < nIterForPsf /\ (i = 0 \/ \E c \in Cands : status[c] = "BAD")

\* A loop whose body runs before its bound is tested (a do-while).
LoopContinuesAtLeastOnce(i) == i < nIterForPsf \/ i = 0

\* for iter in range(self._nIterForPsf): whether the body runs for index i
LoopContinues(i) == i < nIterForPsf

\* The candidates a fit visits: those the cell set yields when it ignores BAD.
FitVisited(st) == {c \in DOMAIN st : st[c] # "BAD"}

\* algorithmsLib.countPsfCandidates(psfCellSet, self._nStarPerCell)
CountPsfCandidates(st) == Cardinality(FitVisited(st))

\* The test without its numpy.isnan term.
IsBadChi2NoNaN(rchi2) == Lt(rchi2, 0) \/ Gt(rchi2, Chi2Threshold)

\* The test with >= in place of >: a chi-square at the threshold is bad too.
IsBadChi2AtThreshold(rchi2) ==
    Lt(rchi2, 0) \/ Gt(rchi2, Chi2Threshold) \/ rchi2 = Chi2Threshold \/ rchi2 = NaN

\* rchi2 < 0 or rchi2 > self._reducedChi2ForPsfCandidates or numpy.isnan(rchi2)
IsBadChi2(rchi2) == Lt(rchi2, 0) \/ Gt(rchi2, Chi2Threshold) \/ rchi2 = NaN

\* The count with a true division: int(x + 0.5) then rounds x to the nearest
\* integer, halves up.
NumBadTrueDivision(len, i, n) == (2 * len * (i + 1) + n) \div (2 * n)

\* The count with iter in place of iter + 1.
NumBadZeroBased(len, i, n) == (len * i) \div n

\* The count with the quotient taken over one round too many.
NumBadOneRoundMore(len, i, n) == (len * (i + 1)) \div (n + 1)

\* int(len(badCandidates) * (iter + 1) / self._nIterForPsf + 0.5): the operands
\* are ints, so "/" is Python 2's floor division, and int() truncates the
\* half added to the integer quotient.
NumBad(len, i, n) == (len * (i + 1)) \div n

\* zip(range(n), list): the first n elements of list, all of it if n is larger
ZipRange(n, list) == {list[i] : i \in 1..Min(n, Len(list))}

\* The candidates the chi-square rule sets BAD:
\* for i, c in zip(range(numBad), badCandidates)
Chi2Clipped(pool, n) == ZipRange(n, pool)

\* The positions (in candidates) the spatial rule sets BAD:
\* for i, c in zip(range(min(len(badCandidates), numBad)), badCandidates)
SpatialClipped(pool, n) == ZipRange(Min(Len(pool), n), pool)

\* A rule that sets the status of every candidate: BAD for its targets and
\* UNKNOWN for the others.
SetBadElseUnknown(st, targets) ==
    [c \in DOMAIN st |-> IF c \in targets THEN "BAD" ELSE "UNKNOWN"]

\* c.setStatus(afwMath.SpatialCellCandidate.BAD) for every c of targets
SetBad(st, targets) == [c \in DOMAIN st |-> IF c \in targets THEN "BAD" ELSE st[c]]

\* The chi-square pool in cell order, then sorted on chi-square, largest first.
Chi2Pool(chi) ==
    LET bad == InCellOrder({c \in DOMAIN chi : IsBadChi2(chi[c])}, Cardinality(DOMAIN chi))
    IN  Undecorate(ListSortReverse([i \in 1..Len(bad) |-> <<chi[bad[i]], bad[i]>>]))

\* A pool that leaves out the candidates that are BAD already (set BAD by the
\* chi-square rule or by an earlier component).
SpatialPoolSkipsBad(cands, col, mean, rms) ==
    LET bad == InCellOrder({i \in 1..Len(cands) :
                              /\ status[cands[i]] # "BAD"
                              /\ Fabs(col[cands[i]] - mean) > SpatialRejectSigma * rms},
                           Len(cands))
    IN  Undecorate(ListSortReverse(
            [j \in 1..Len(bad) |-> <<Fabs(col[cands[bad[j]]] - mean), bad[j]>>]))

\* The pool of one component: the positions i of candidates whose residual is
\* further than spatialReject * rms from mean, sorted on that distance, largest
\* first.  col[c] is residuals[i, k] of candidate c = candidates[i].
SpatialPool(cands, col, mean, rms) ==
    LET bad == InCellOrder({i \in 1..Len(cands) :
                              Fabs(col[cands[i]] - mean) > SpatialRejectSigma * rms},
                           Len(cands))
    IN  Undecorate(ListSortReverse(
            [j \in 1..Len(bad) |-> <<Fabs(col[cands[bad[j]]] - mean), bad[j]>>]))


\* --------------------------------------------------- the measurement task

\* A field that is None.
None == "None"

\* SourceMeasurementConfig after __init__: the default algorithms and
\* centroider, and the slots __init__ assigns.
DefaultConfig ==
    [algorithms    |-> {"flags.pixel", "centroid.gaussian", "centroid.naive", "shape.sdss",
                        "flux.gaussian", "flux.naive", "flux.psf", "flux.sinc",
                        "classification.extendedness", "skycoord"},
     centroider    |-> "centroid.sdss",
     slots         |-> [centroid  |-> "centroid.sdss",
                        shape     |-> "shape.sdss",
                        psfFlux   |-> "flux.psf",
                        apFlux    |-> "flux.naive",
                        modelFlux |-> "flux.gaussian",
                        instFlux  |-> "flux.gaussian"],
     apCorrFluxes  |-> {"flux.psf", "flux.gaussian"},
     doApplyApCorr |-> TRUE]

\* The flux algorithms there are.
FluxAlgorithms == {"flux.gaussian", "flux.naive", "flux.psf", "flux.sinc"}

\* The algorithm names the validated configs are made of, and the ones the
\* centroider registry (the algorithms with a CentroidConfig) offers.
AlgorithmNames == {"centroid.sdss", "shape.sdss", "flux.psf"}

CentroiderNames == {"centroid.sdss"}

\* The configs handed to validate: any subset of the names as algorithms, a
\* centroider or none, and every slot a name or None.
ValidateConfigs ==
    [algorithms    : SUBSET AlgorithmNames,
     centroider    : CentroiderNames \cup {None},
     slots         : [centroid  : AlgorithmNames \cup {None},
                      shape     : AlgorithmNames \cup {None},
                      psfFlux   : AlgorithmNames \cup {None},
                      apFlux    : AlgorithmNames \cup {None},
                      modelFlux : {"flux.psf", None},
                      instFlux  : {"flux.psf", None}],
     apCorrFluxes  : {DefaultConfig.apCorrFluxes},
     doApplyApCorr : {TRUE}]

\* The values measurer.apply gives the flux fields of a record, and the
\* (corr, corrErr) pairs apCorr.computeAt returns.
FluxVals == {1, 3}

CorrVals == {<<2, 0>>, <<3, 1>>}

\* The apCorr arguments of run: None (the default) or an ApertureCorrection.
ApCorrs == {None, "ApertureCorrection"}

\* bool(apCorr), the test of "if ... and apCorr": None is false, an
\* ApertureCorrection object is true.
Truthy(x) == x # None

\* self.fluxKeys after SourceMeasurementTask.__init__ (not set without
\* doApplyApCorr)
FluxKeys(cfg) ==
    IF cfg.doApplyApCorr THEN {f \in cfg.apCorrFluxes : f \in cfg.algorithms} ELSE {}

\* A record of the catalog before it is measured.  fluxErrSq is the square of
\* a flux's error field; apcorr and apcorrErr are the aperturecorrection and
\* aperturecorrection.err fields, 0 while not set.
NewRecord ==
    [measured  |-> FALSE,
     flux      |-> [f \in FluxAlgorithms |-> 0],
     fluxErrSq |-> [f \in FluxAlgorithms |-> 0],
     apcorr    |-> 0,
     apcorrErr |-> 0]

\* How SourceMeasurementConfig.validate ends: "ok" when it returns, otherwise
\* the exception it raises.  The tests are made in the code's order.  The
\* message of the centroid slot's ValueError is formatted with
\* self.slots.astrom, a field SourceSlotConfig does not have, so that branch
\* raises AttributeError before the ValueError is made.
ValidateOutcome(cfg) ==
    LET names == cfg.algorithms
        Missing(slot) == slot # None /\ slot \notin names
    IN  IF cfg.centroider \in names THEN "ValueError"
        ELSE IF Missing(cfg.slots.centroid) /\ cfg.slots.centroid # cfg.centroider
        THEN "AttributeError"
        ELSE IF Missing(cfg.slots.shape) THEN "ValueError"
        ELSE IF \E slot \in {cfg.slots.psfFlux, cfg.slots.apFlux,
                             cfg.slots.modelFlux, cfg.slots.instFlux} : Missing(slot)
        THEN "ValueError"
        ELSE "ok"

\* No SourceMeasurementTask is running and no config is being validated.
NoMeasurement ==
    /\ config = DefaultConfig
    /\ validated = "none"
    /\ mpc = "idle"
    /\ apCorr = None
    /\ fluxKeys = {}
    /\ sources = <<>>
    /\ mi = 0
    /\ fluxMeasured = <<>>


\* ------------------------------------------------------------------ actions

Init ==
    /\ pc = "start"
    /\ error = "none"
    /\ nCand \in 0..MaxCand
    /\ nIterForPsf \in 0..MaxIter
    /\ iter = 0
    /\ status = [c \in 1..nCand |-> "UNKNOWN"]
    /\ chi2 = [c \in 1..nCand |-> ChiUnset]
    /\ psf = NoPsf
    /\ badCandidates = <<>>
    /\ numBad = 0
    /\ candidates = <<>>
    /\ k = 0
    /\ numGoodStars = 0
    /\ numAvailStars = 0
    /\ returned = NoPsf
    /\ nFit = 0 /\ nReset = 0 /\ nChi2 = 0 /\ nSpatial = 0
    /\ chiMarked = {}
    /\ rejectedIn = <<>>
    /\ sP = 0 /\ sK = 1 /\ sIter = 0 /\ sChi = <<>> /\ sSpatial = <<>>
    /\ policy \in LoopPolicies
    /\ sizes = [c \in 1..nCand |-> c * c]
    /\ kernelSize = policy.kernelSize
    /\ psfCellSet = {}
    /\ stampWidth = 0 /\ stampHeight = 0
    /\ psfStar = [c \in 1..nCand |-> FlaggedAtEntry(c)]
    /\ nSetWidth = 0 /\ nSetHeight = 0
    /\ stampDims = {}
    /\ noStamp = {}
    /\ nCall = 1 /\ kernelSizeUsed = <<>>
    /\ sdqaRatingSet = NoRatingSet /\ fitChi2 = 0
    /\ keepResiduals = FALSE /\ spatialLog = <<>>
    /\ NoMeasurement

\* Where the for statement goes for index i: into the body, or past the loop.
LoopTarget(i) == IF LoopContinues(i) THEN "fit" ELSE "lastfit"

\* determinePsf without its test of an empty list.
DeterminePsfStartUnchecked ==
    /\ pc = "start"
    /\ pc' = "size"
    /\ psfCellSet' = Cands
    /\ UNCHANGED <<error, iter, nCand, nIterForPsf, status, chi2, psf, badCandidates,
                   numBad, candidates, k, numGoodStars, numAvailStars, returned>>
    /\ UNCHANGED <<historyVars, scheduleVars>>
    /\ UNCHANGED <<policy, sizes, kernelSize, stampWidth, stampHeight>>
    /\ UNCHANGED <<flagVars, stampHistoryVars>>
    /\ UNCHANGED <<callVars, spatialLogVars, measurementVars>>
    /\ UNCHANGED sdqaVars

\* determinePsf up to the kernel sizing: an empty candidate list raises
\* RuntimeError, otherwise every candidate is inserted in the cell set and the
\* semi-major axis of its source is read.
DeterminePsfStart ==
    /\ pc = "start"
    /\ IF nCand = 0
       THEN /\ pc' = "error"
            /\ error' = "NoCandidates"
            /\ psfCellSet' = psfCellSet
       ELSE /\ pc' = "size"
            /\ error' = error
            /\ psfCellSet' = Cands
    /\ UNCHANGED <<iter, nCand, nIterForPsf, status, chi2, psf, badCandidates, numBad,
                   candidates, k, numGoodStars, numAvailStars, returned>>
    /\ UNCHANGED <<historyVars, scheduleVars>>
    /\ UNCHANGED <<policy, sizes, kernelSize, stampWidth, stampHeight>>
    /\ UNCHANGED <<flagVars, stampHistoryVars>>
    /\ UNCHANGED <<callVars, spatialLogVars, measurementVars>>
    /\ UNCHANGED sdqaVars

\* The kernel size: self._kernelSize is overwritten with the size of the run.
KernelSizing ==
    /\ pc = "size"
    /\ kernelSize' = NewKernelSize(kernelSize, policy.kernelSizeMin,
                                   policy.kernelSizeMax, sizes)
    /\ pc' = "stamp"
    /\ UNCHANGED <<error, iter, nCand, nIterForPsf, status, chi2, psf, badCandidates,
                   numBad, candidates, k, numGoodStars, numAvailStars, returned>>
    /\ UNCHANGED <<historyVars, scheduleVars>>
    /\ UNCHANGED <<policy, sizes, psfCellSet, stampWidth, stampHeight>>
    /\ UNCHANGED <<flagVars, stampHistoryVars>>
    /\ kernelSizeUsed' = Append(kernelSizeUsed, kernelSize')
    /\ UNCHANGED <<nCall, spatialLogVars, measurementVars>>
    /\ UNCHANGED sdqaVars

\* "Set size of image returned around candidate", with the call of setWidth
\* left out.
SetStampSizeHeightOnly ==
    /\ pc = "stamp"
    /\ stampHeight' = kernelSize
    /\ nSetHeight' = nSetHeight + 1
    /\ pc' = LoopTarget(0)
    /\ iter' = 0
    /\ UNCHANGED <<error, nCand, nIterForPsf, status, chi2, psf, badCandidates,
                   numBad, candidates, k, numGoodStars, numAvailStars, returned>>
    /\ UNCHANGED <<historyVars, scheduleVars>>
    /\ UNCHANGED <<policy, sizes, kernelSize, psfCellSet, stampWidth>>
    /\ UNCHANGED <<flagVars, nSetWidth, stampDims, noStamp>>
    /\ UNCHANGED <<callVars, spatialLogVars, measurementVars>>
    /\ UNCHANGED sdqaVars

\* "Set size of image returned around candidate": setHeight and setWidth are
\* called on psfCandidateList[0]; the width and the height are the candidate
\* class's, so every candidate's stamp has them from here on.  Then the loop
\* is entered.
SetStampSize ==
    /\ pc = "stamp"
    /\ stampHeight' = kernelSize
    /\ stampWidth' = kernelSize
    /\ nSetHeight' = nSetHeight + 1
    /\ nSetWidth' = nSetWidth + 1
    /\ pc' = LoopTarget(0)
    /\ iter' = 0
    /\ UNCHANGED <<error, nCand, nIterForPsf, status, chi2, psf, badCandidates,
                   numBad, candidates, k, numGoodStars, numAvailStars, returned>>
    /\ UNCHANGED <<historyVars, scheduleVars>>
    /\ UNCHANGED <<policy, sizes, kernelSize, psfCellSet>>
    /\ UNCHANGED <<flagVars, stampDims, noStamp>>
    /\ UNCHANGED <<callVars, spatialLogVars, measurementVars>>
    /\ UNCHANGED sdqaVars

\* _fitPsf without the division by the number of candidates: a fit that finds
\* no candidate that is not BAD returns a model made from none.
FitPsfDegenerate(next) ==
    /\ nFit' = nFit + 1
    /\ fitChi2' = nFit + 1
    /\ \E newChi \in [FitVisited(status) -> ChiVals] :
         chi2' = [c \in Cands |->
                    IF c \in FitVisited(status) THEN newChi[c] ELSE chi2[c]]
    /\ psf' = [fit |-> nFit + 1, stars |-> FitVisited(status)]
    /\ pc' = next
    /\ error' = error
    /\ UNCHANGED <<nCand, nIterForPsf, iter, status, badCandidates, numBad,
                   candidates, k, numGoodStars, numAvailStars, returned>>
    /\ UNCHANGED <<nReset, nChi2, nSpatial, chiMarked, rejectedIn>>
    /\ UNCHANGED scheduleVars
    /\ UNCHANGED <<sizingVars, flagVars, stampHistoryVars>>
    /\ UNCHANGED <<callVars, spatialLogVars, measurementVars>>
    /\ UNCHANGED sdqaRatingSet

\* _fitPsf.  The fit visits the candidates that are not BAD and gives each a
\* chi-square; the eigenvalues are divided by countPsfCandidates * nu, which
\* raises ZeroDivisionError when no candidate is left.
FitPsf(next) ==
    /\ nFit' = nFit + 1
    /\ IF CountPsfCandidates(status) = 0
       THEN /\ pc' = "error"
            /\ error' = "FitFailed"
            /\ UNCHANGED <<chi2, psf, fitChi2>>
       ELSE /\ \E newChi \in [FitVisited(status) -> ChiVals] :
                 chi2' = [c \in Cands |->
                            IF c \in FitVisited(status) THEN newChi[c] ELSE chi2[c]]
            /\ psf' = [fit |-> nFit + 1, stars |-> FitVisited(status)]
            /\ fitChi2' = nFit + 1
            /\ pc' = next
            /\ error' = error
    /\ UNCHANGED <<nCand, nIterForPsf, iter, status, badCandidates, numBad,
                   candidates, k, numGoodStars, numAvailStars, returned>>
    /\ UNCHANGED <<nReset, nChi2, nSpatial, chiMarked, rejectedIn>>
    /\ UNCHANGED scheduleVars
    /\ UNCHANGED <<sizingVars, flagVars, stampHistoryVars>>
    /\ UNCHANGED <<callVars, spatialLogVars, measurementVars>>
    /\ UNCHANGED sdqaRatingSet

\* A round without its reset: the fit is followed by the chi-square rule.
FitRoundSkipsReset ==
    /\ pc = "fit"
    /\ FitPsf("chi2")

\* A round that resets before it fits: every candidate is UNKNOWN when the fit
\* visits the cell set, so the fit uses them all.
FitRoundAfterReset ==
    /\ pc = "fit"
    /\ status' = [c \in Cands |-> "UNKNOWN"]
    /\ \E newChi \in [Cands -> ChiVals] : chi2' = newChi
    /\ psf' = [fit |-> nFit + 1, stars |-> Cands]
    /\ nFit' = nFit + 1
    /\ fitChi2' = nFit + 1
    /\ nReset' = nReset + 1
    /\ chiMarked' = {}
    /\ rejectedIn' = Append(rejectedIn, {})
    /\ pc' = "chi2"
    /\ UNCHANGED <<error, nCand, nIterForPsf, iter, badCandidates, numBad,
                   candidates, k, numGoodStars, numAvailStars, returned>>
    /\ UNCHANGED <<nChi2, nSpatial>>
    /\ UNCHANGED scheduleVars
    /\ UNCHANGED <<sizingVars, flagVars, stampHistoryVars>>
    /\ UNCHANGED <<callVars, spatialLogVars, measurementVars>>
    /\ UNCHANGED sdqaRatingSet

\* "First, estimate the PSF": the fit that opens a round.
FitRound ==
    /\ pc = "fit"
    /\ FitPsf("reset")

\* A reset that leaves the BAD candidates BAD: only the others are set UNKNOWN.
ResetStatusKeepsBad ==
    /\ pc = "reset"
    /\ status' = [c \in Cands |-> IF status[c] = "BAD" THEN "BAD" ELSE "UNKNOWN"]
    /\ pc' = "chi2"
    /\ nReset' = nReset + 1
    /\ chiMarked' = {}
    /\ rejectedIn' = Append(rejectedIn, {})
    /\ UNCHANGED <<error, nCand, nIterForPsf, iter, chi2, psf, badCandidates, numBad,
                   candidates, k, numGoodStars, numAvailStars, returned>>
    /\ UNCHANGED <<nFit, nChi2, nSpatial>>
    /\ UNCHANGED scheduleVars
    /\ UNCHANGED <<sizingVars, flagVars, stampHistoryVars>>
    /\ UNCHANGED <<callVars, spatialLogVars, measurementVars>>
    /\ UNCHANGED sdqaVars

\* "allow all candidates to be innocent until proven guilty on this iteration":
\* every candidate, BAD ones too, is set UNKNOWN.
ResetStatus ==
    /\ pc = "reset"
    /\ status' = [c \in Cands |-> "UNKNOWN"]
    /\ pc' = "chi2"
    /\ nReset' = nReset + 1
    /\ chiMarked' = {}
    /\ rejectedIn' = Append(rejectedIn, {})
    /\ UNCHANGED <<error, nCand, nIterForPsf, iter, chi2, psf, badCandidates, numBad,
                   candidates, k, numGoodStars, numAvailStars, returned>>
    /\ UNCHANGED <<nFit, nChi2, nSpatial>>
    /\ UNCHANGED scheduleVars
    /\ UNCHANGED <<sizingVars, flagVars, stampHistoryVars>>
    /\ UNCHANGED <<callVars, spatialLogVars, measurementVars>>
    /\ UNCHANGED sdqaVars

\* "Clip out bad fits based on raw chi^2"
Chi2Reject ==
    /\ pc = "chi2"
    /\ LET pool == Chi2Pool(chi2)
           n    == NumBad(Len(pool), iter, nIterForPsf)
           clip == Chi2Clipped(pool, n)
       IN  /\ badCandidates' = pool
           /\ numBad' = n
           /\ status' = SetBad(status, clip)
           /\ chiMarked' = clip
           /\ rejectedIn' = [rejectedIn EXCEPT ![Len(rejectedIn)] = @ \cup clip]
    /\ pc' = "residuals"
    /\ nChi2' = nChi2 + 1
    /\ UNCHANGED <<error, nCand, nIterForPsf, iter, chi2, psf, candidates, k,
                   numGoodStars, numAvailStars, returned>>
    /\ UNCHANGED <<nFit, nReset, nSpatial>>
    /\ UNCHANGED scheduleVars
    /\ UNCHANGED <<sizingVars, flagVars, stampHistoryVars>>
    /\ UNCHANGED <<callVars, spatialLogVars, measurementVars>>
    /\ UNCHANGED sdqaVars

\* The rows of residuals: one for every candidate of the cell set, BAD ones too
\* (cell.begin(False)), whose getImage() does not raise.  With no row at all,
\* residuals is a one-dimensional empty array and residuals[:,k] raises
\* IndexError.
SpatialResiduals ==
    /\ pc = "residuals"
    /\ \E noImage \in SUBSET Cands :
         /\ candidates' = InCellOrder(Cands \ noImage, nCand)
         /\ noStamp' = noImage
         /\ stampDims' = IF noImage = Cands THEN stampDims
                          ELSE stampDims \cup {<<stampWidth, stampHeight>>}
         /\ IF noImage = Cands /\ NKernelParameters > 0
            THEN /\ pc' = "error"
                 /\ error' = "IndexError"
            ELSE /\ pc' = "spatial"
                 /\ error' = error
    /\ k' = 0
    /\ UNCHANGED <<nCand, nIterForPsf, iter, status, chi2, psf, badCandidates, numBad,
                   numGoodStars, numAvailStars, returned>>
    /\ UNCHANGED <<historyVars, scheduleVars>>
    /\ UNCHANGED <<sizingVars, flagVars, nSetWidth, nSetHeight>>
    /\ UNCHANGED <<callVars, spatialLogVars, measurementVars>>
    /\ UNCHANGED sdqaVars

\* "Clip out bad fits based on spatial fitting", for kernel component k.  The
\* column residuals[:,k] and its clipped mean and standard deviation come from
\* the external fit and statistics; the array is not changed after it is
\* built, so the column is drawn here, where it is first read.
SpatialReject ==
    /\ pc = "spatial"
    /\ k < NKernelParameters
    /\ \E col \in [Range(candidates) -> ResVals], mean \in MeanVals, stdev \in RmsVals :
         LET rms  == Max(RmsFloor, stdev)
             pool == SpatialPool(candidates, col, mean, rms)
             n    == NumBad(Len(pool), iter, nIterForPsf)
             clip == {candidates[i] : i \in SpatialClipped(pool, n)}
         IN  /\ badCandidates' = pool
             /\ numBad' = n
             /\ status' = SetBad(status, clip)
             /\ rejectedIn' = [rejectedIn EXCEPT ![Len(rejectedIn)] = @ \cup clip]
             /\ spatialLog' = IF keepResiduals
                               THEN Append(spatialLog,
                                           [col |-> col, mean |-> mean, stdev |-> stdev])
                               ELSE spatialLog
    /\ k' = k + 1
    /\ UNCHANGED <<pc, error, nCand, nIterForPsf, iter, chi2, psf, candidates,
                   numGoodStars, numAvailStars, returned>>
    /\ UNCHANGED <<nFit, nReset, nChi2, nSpatial, chiMarked>>
    /\ UNCHANGED scheduleVars
    /\ UNCHANGED <<sizingVars, flagVars, stampHistoryVars>>
    /\ UNCHANGED <<callVars, keepResiduals, measurementVars>>
    /\ UNCHANGED sdqaVars

\* The end of the loop body: the for statement takes the next index.  The
\* body's locals (badCandidates, numBad, candidates, residuals, k) are not read
\* again before the next round assigns them, and are dropped here.
NextIteration ==
    /\ pc = "spatial"
    /\ k = NKernelParameters
    /\ iter' = iter + 1
    /\ pc' = LoopTarget(iter + 1)
    /\ nSpatial' = nSpatial + 1
    /\ badCandidates' = <<>> /\ numBad' = 0 /\ candidates' = <<>> /\ k' = 0
    /\ chiMarked' = {}
    /\ UNCHANGED <<error, nCand, nIterForPsf, status, chi2, psf,
                   numGoodStars, numAvailStars, returned>>
    /\ UNCHANGED <<nFit, nReset, nChi2, rejectedIn>>
    /\ UNCHANGED scheduleVars
    /\ noStamp' = {}
    /\ UNCHANGED <<sizingVars, flagVars, nSetWidth, nSetHeight, stampDims>>
    /\ spatialLog' = <<>>
    /\ UNCHANGED <<callVars, keepResiduals, measurementVars>>
    /\ UNCHANGED sdqaVars

\* A run without the fit after the loop.
FinalFitSkipped ==
    /\ pc = "lastfit"
    /\ pc' = "finalize"
    /\ UNCHANGED <<error, nCand, nIterForPsf, iter, status, chi2, psf, badCandidates,
                   numBad, candidates, k, numGoodStars, numAvailStars, returned>>
    /\ UNCHANGED <<historyVars, scheduleVars>>
    /\ UNCHANGED <<sizingVars, flagVars, stampHistoryVars>>
    /\ UNCHANGED <<callVars, spatialLogVars, measurementVars>>
    /\ UNCHANGED sdqaVars

\* "One last time, to take advantage of the last iteration"
FinalFit ==
    /\ pc = "lastfit"
    /\ FitPsf("finalize")

\* Only the candidates whose status is GOOD.
GoodStarsOnlyGood(st) == {c \in DOMAIN st : st[c] = "GOOD"}

\* for cand in cell.begin(True), over the cells: the candidates that are not
\* BAD
GoodStars(st) == {c \in DOMAIN st : st[c] # "BAD"}

\* for cand in cell.begin(False), over the cells: every candidate
AvailStars(st) == DOMAIN st

\* The flag assigned to every source: set for the stars, cleared for the
\* others.
SetPsfStarAssigned(flags, stars) == [c \in DOMAIN flags |-> c \in stars]

\* src.setFlagForDetection(src.getFlagForDetection() | PSFSTAR) for the source
\* of every candidate of stars
SetPsfStar(flags, stars) == [c \in DOMAIN flags |-> flags[c] \/ c \in stars]

\* The ratings with numGoodStars and numAvailStars taken for each other.
EmitSdqaCountsSwapped(set, chi, good, avail) ==
    IF set.supplied
    THEN [set EXCEPT !.ratings = @ \o << <<"phot.psf.spatialFitChi2", chi>>,
                                         <<"phot.psf.numGoodStars", avail>>,
                                         <<"phot.psf.numAvailStars", good>>,
                                         <<"phot.psf.spatialLowOrdFlag", 0>> >>]
    ELSE set

\* "Generate some stuff for SDQA": if sdqaRatingSet != None, four ratings are
\* appended to it, each a name and a value.
EmitSdqa(set, chi, good, avail) ==
    IF set.supplied
    THEN [set EXCEPT !.ratings = @ \o << <<"phot.psf.spatialFitChi2", chi>>,
                                         <<"phot.psf.numGoodStars", good>>,
                                         <<"phot.psf.numAvailStars", avail>>,
                                         <<"phot.psf.spatialLowOrdFlag", 0>> >>]
    ELSE set

\* "Count PSF stars", then return psf, psfCellSet
Finalize ==
    /\ pc = "finalize"
    /\ numAvailStars' = Cardinality(AvailStars(status))
    /\ numGoodStars' = Cardinality(GoodStars(status))
    /\ psfStar' = SetPsfStar(psfStar, GoodStars(status))
    /\ sdqaRatingSet' = EmitSdqa(sdqaRatingSet, fitChi2, Cardinality(GoodStars(status)),
                                 Cardinality(AvailStars(status)))
    /\ returned' = psf
    /\ pc' = "done"
    /\ UNCHANGED <<error, nCand, nIterForPsf, iter, status, chi2, psf, badCandidates,
                   numBad, candidates, k>>
    /\ UNCHANGED <<historyVars, scheduleVars>>
    /\ UNCHANGED <<sizingVars, stampHistoryVars>>
    /\ UNCHANGED <<callVars, spatialLogVars, measurementVars>>
    /\ UNCHANGED fitChi2

Next ==
    \/ DeterminePsfStart
    \/ KernelSizing
    \/ SetStampSize
    \/ FitRound
    \/ ResetStatus
    \/ Chi2Reject
    \/ SpatialResiduals
    \/ SpatialReject
    \/ NextIteration
    \/ FinalFit
    \/ Finalize

Spec == Init /\ [][Next]_vars


\* ------------------------------------------------ the rejection schedule alone

\* The two rules' counts for a pool that has sP members in every round of a
\* run of sK rounds.
InitSchedule ==
    /\ pc = "start"
    /\ error = "none"
    /\ nCand = 0
    /\ nIterForPsf = 0
    /\ iter = 0
    /\ status = <<>>
    /\ chi2 = <<>>
    /\ psf = NoPsf
    /\ badCandidates = <<>>
    /\ numBad = 0
    /\ candidates = <<>>
    /\ k = 0
    /\ numGoodStars = 0
    /\ numAvailStars = 0
    /\ returned = NoPsf
    /\ nFit = 0 /\ nReset = 0 /\ nChi2 = 0 /\ nSpatial = 0
    /\ chiMarked = {}
    /\ rejectedIn = <<>>
    /\ sP \in 0..MaxPool
    /\ sK \in 1..MaxRounds
    /\ sIter = 0
    /\ sChi = <<>>
    /\ sSpatial = <<>>
    /\ policy \in {p \in LoopPolicies : p.kernelSize = AbsoluteSizeThreshold}
    /\ sizes = <<>>
    /\ kernelSize = policy.kernelSize
    /\ psfCellSet = {}
    /\ stampWidth = 0 /\ stampHeight = 0
    /\ psfStar = <<>>
    /\ nSetWidth = 0 /\ nSetHeight = 0
    /\ stampDims = {}
    /\ noStamp = {}
    /\ nCall = 1 /\ kernelSizeUsed = <<>>
    /\ sdqaRatingSet = NoRatingSet /\ fitChi2 = 0
    /\ keepResiduals = FALSE /\ spatialLog = <<>>
    /\ NoMeasurement

\* One round: numBad is computed once for each rule from the pool's length, and
\* each rule sets BAD the pool members its loop reaches.
ScheduleRound ==
    /\ sIter < sK
    /\ LET pool == [i \in 1..sP |-> i]
           n    == NumBad(Len(pool), sIter, sK)
       IN  /\ sChi' = Append(sChi, Cardinality(Chi2Clipped(pool, n)))
           /\ sSpatial' = Append(sSpatial, Cardinality(SpatialClipped(pool, n)))
    /\ sIter' = sIter + 1
    /\ UNCHANGED <<sP, sK>>
    /\ UNCHANGED <<loopVars, historyVars>>
    /\ UNCHANGED <<sizingVars, flagVars, stampHistoryVars>>
    /\ UNCHANGED <<callVars, spatialLogVars, measurementVars>>
    /\ UNCHANGED sdqaVars

NextSchedule == ScheduleRound

SpecSchedule == InitSchedule /\ [][NextSchedule]_vars


\* ------------------------------------------------------ the kernel sizing alone

\* determinePsf from its entry to the loop's first fit, for every policy of
\* Policies and every list of up to MaxCand candidates with axes of AxisVals.
InitSizing ==
    /\ pc = "start"
    /\ error = "none"
    /\ nCand \in 0..MaxCand
    /\ nIterForPsf = 1
    /\ iter = 0
    /\ status = [c \in 1..nCand |-> "UNKNOWN"]
    /\ chi2 = [c \in 1..nCand |-> ChiUnset]
    /\ psf = NoPsf
    /\ badCandidates = <<>>
    /\ numBad = 0
    /\ candidates = <<>>
    /\ k = 0
    /\ numGoodStars = 0
    /\ numAvailStars = 0
    /\ returned = NoPsf
    /\ nFit = 0 /\ nReset = 0 /\ nChi2 = 0 /\ nSpatial = 0
    /\ chiMarked = {}
    /\ rejectedIn = <<>>
    /\ sP = 0 /\ sK = 1 /\ sIter = 0 /\ sChi = <<>> /\ sSpatial = <<>>
    /\ policy \in Policies
    /\ sizes \in [1..nCand -> AxisVals]
    /\ kernelSize = policy.kernelSize
    /\ psfCellSet = {}
    /\ stampWidth = 0 /\ stampHeight = 0
    /\ psfStar = [c \in 1..nCand |-> FlaggedAtEntry(c)]
    /\ nSetWidth = 0 /\ nSetHeight = 0
    /\ stampDims = {}
    /\ noStamp = {}
    /\ nCall = 1 /\ kernelSizeUsed = <<>>
    /\ sdqaRatingSet = NoRatingSet /\ fitChi2 = 0
    /\ keepResiduals = FALSE /\ spatialLog = <<>>
    /\ NoMeasurement

NextSizing ==
    \/ DeterminePsfStart
    \/ KernelSizing
    \/ SetStampSize

SpecSizing == InitSizing /\ [][NextSizing]_vars


\* -------------------------------------------- two calls on the same determiner

\* determinePsf is called again on the same PcaPsfDeterminer with the same
\* candidate list, after the call before has returned or raised.  The new call
\* has fresh locals and a new cell set; what the determiner and the candidates
\* hold (self._kernelSize, the stamp size, status, chi-square, flags) is as the
\* call before left it.
CallAgain ==
    /\ pc \in {"done", "error"}
    /\ nCall < MaxCalls
    /\ nCall' = nCall + 1
    /\ pc' = "start"
    /\ error' = "none"
    /\ iter' = 0 /\ k' = 0
    /\ psf' = NoPsf /\ returned' = NoPsf
    /\ badCandidates' = <<>> /\ numBad' = 0 /\ candidates' = <<>>
    /\ numGoodStars' = 0 /\ numAvailStars' = 0
    /\ nFit' = 0 /\ nReset' = 0 /\ nChi2' = 0 /\ nSpatial' = 0
    /\ chiMarked' = {} /\ rejectedIn' = <<>>
    /\ psfCellSet' = {}
    /\ nSetWidth' = 0 /\ nSetHeight' = 0 /\ stampDims' = {} /\ noStamp' = {}
    /\ spatialLog' = <<>>
    /\ UNCHANGED <<nCand, nIterForPsf, status, chi2>>
    /\ UNCHANGED <<policy, sizes, kernelSize, stampWidth, stampHeight>>
    /\ UNCHANGED <<scheduleVars, flagVars, kernelSizeUsed, keepResiduals, measurementVars>>
    /\ fitChi2' = 0
    /\ UNCHANGED sdqaRatingSet

\* One candidate with any axis of AxisVals, any policy of Policies, one round.
InitTwoCalls == InitSizing /\ nCand = 1

NextTwoCalls == Next \/ CallAgain

SpecTwoCalls == InitTwoCalls /\ [][NextTwoCalls]_vars


\* ------------------------------------------- the spatial rule, residuals kept

\* determinePsf on up to MaxCandSpatial candidates, with the column of
\* residuals and the statistics of every component of the round kept in
\* spatialLog.
InitSpatial ==
    /\ pc = "start"
    /\ error = "none"
    /\ nCand \in 1..MaxCandSpatial
    /\ nIterForPsf \in 1..MaxIter
    /\ iter = 0
    /\ status = [c \in 1..nCand |-> "UNKNOWN"]
    /\ chi2 = [c \in 1..nCand |-> ChiUnset]
    /\ psf = NoPsf
    /\ badCandidates = <<>>
    /\ numBad = 0
    /\ candidates = <<>>
    /\ k = 0
    /\ numGoodStars = 0
    /\ numAvailStars = 0
    /\ returned = NoPsf
    /\ nFit = 0 /\ nReset = 0 /\ nChi2 = 0 /\ nSpatial = 0
    /\ chiMarked = {}
    /\ rejectedIn = <<>>
    /\ sP = 0 /\ sK = 1 /\ sIter = 0 /\ sChi = <<>> /\ sSpatial = <<>>
    /\ policy \in {p \in LoopPolicies : p.kernelSize = AbsoluteSizeThreshold}
    /\ sizes = [c \in 1..nCand |-> c * c]
    /\ kernelSize = policy.kernelSize
    /\ psfCellSet = {}
    /\ stampWidth = 0 /\ stampHeight = 0
    /\ psfStar = [c \in 1..nCand |-> FlaggedAtEntry(c)]
    /\ nSetWidth = 0 /\ nSetHeight = 0
    /\ stampDims = {}
    /\ noStamp = {}
    /\ nCall = 1 /\ kernelSizeUsed = <<>>
    /\ sdqaRatingSet = NoRatingSet /\ fitChi2 = 0
    /\ keepResiduals = TRUE /\ spatialLog = <<>>
    /\ NoMeasurement

SpecSpatial == InitSpatial /\ [][Next]_vars


\* --------------------------------------------- runs with and without a sink

\* determinePsf on up to MaxCandSpatial candidates, called without an
\* sdqaRatingSet (the default, None) or with an empty one.
InitSdqa ==
    /\ pc = "start"
    /\ error = "none"
    /\ nCand \in 0..MaxCandSpatial
    /\ nIterForPsf \in 0..MaxIter
    /\ iter = 0
    /\ status = [c \in 1..nCand |-> "UNKNOWN"]
    /\ chi2 = [c \in 1..nCand |-> ChiUnset]
    /\ psf = NoPsf
    /\ badCandidates = <<>>
    /\ numBad = 0
    /\ candidates = <<>>
    /\ k = 0
    /\ numGoodStars = 0
    /\ numAvailStars = 0
    /\ returned = NoPsf
    /\ nFit = 0 /\ nReset = 0 /\ nChi2 = 0 /\ nSpatial = 0
    /\ chiMarked = {}
    /\ rejectedIn = <<>>
    /\ sP = 0 /\ sK = 1 /\ sIter = 0 /\ sChi = <<>> /\ sSpatial = <<>>
    /\ policy \in {p \in LoopPolicies : p.kernelSize = AbsoluteSizeThreshold}
    /\ sizes = [c \in 1..nCand |-> c * c]
    /\ kernelSize = policy.kernelSize
    /\ psfCellSet = {}
    /\ stampWidth = 0 /\ stampHeight = 0
    /\ psfStar = [c \in 1..nCand |-> FlaggedAtEntry(c)]
    /\ nSetWidth = 0 /\ nSetHeight = 0
    /\ stampDims = {}
    /\ noStamp = {}
    /\ nCall = 1 /\ kernelSizeUsed = <<>>
    /\ sdqaRatingSet \in {NoRatingSet, EmptyRatingSet} /\ fitChi2 = 0
    /\ keepResiduals = FALSE /\ spatialLog = <<>>
    /\ NoMeasurement

SpecSdqa == InitSdqa /\ [][Next]_vars


\* ------------------------------------------------- validate and run, alone

\* No determinePsf is running.
NoDeterminer ==
    /\ pc = "start"
    /\ error = "none"
    /\ nCand = 0
    /\ nIterForPsf = 0
    /\ iter = 0
    /\ status = <<>>
    /\ chi2 = <<>>
    /\ psf = NoPsf
    /\ badCandidates = <<>>
    /\ numBad = 0
    /\ candidates = <<>>
    /\ k = 0
    /\ numGoodStars = 0
    /\ numAvailStars = 0
    /\ returned = NoPsf
    /\ nFit = 0 /\ nReset = 0 /\ nChi2 = 0 /\ nSpatial = 0
    /\ chiMarked = {}
    /\ rejectedIn = <<>>
    /\ sP = 0 /\ sK = 1 /\ sIter = 0 /\ sChi = <<>> /\ sSpatial = <<>>
    /\ policy \in {p \in LoopPolicies : p.kernelSize = AbsoluteSizeThreshold}
    /\ sizes = <<>>
    /\ kernelSize = policy.kernelSize
    /\ psfCellSet = {}
    /\ stampWidth = 0 /\ stampHeight = 0
    /\ psfStar = <<>>
    /\ nSetWidth = 0 /\ nSetHeight = 0
    /\ stampDims = {}
    /\ noStamp = {}
    /\ nCall = 1 /\ kernelSizeUsed = <<>>
    /\ sdqaRatingSet = NoRatingSet /\ fitChi2 = 0
    /\ keepResiduals = FALSE /\ spatialLog = <<>>

determinerVars == <<loopVars, historyVars, scheduleVars, sizingVars, flagVars,
                    stampHistoryVars, callVars, spatialLogVars, sdqaVars>>

\* A config of ValidateConfigs, not validated yet.
InitValidate ==
    /\ NoDeterminer
    /\ config \in ValidateConfigs
    /\ validated = "none"
    /\ mpc = "idle"
    /\ apCorr = None
    /\ fluxKeys = {}
    /\ sources = <<>>
    /\ mi = 0
    /\ fluxMeasured = <<>>

\* config.validate()
Validate ==
    /\ validated = "none"
    /\ validated' = ValidateOutcome(config)
    /\ UNCHANGED <<config, mpc, apCorr, fluxKeys, sources, mi, fluxMeasured>>
    /\ UNCHANGED determinerVars

NextValidate == Validate

SpecValidate == InitValidate /\ [][NextValidate]_vars

\* SourceMeasurementTask.run is entered, with a catalog of up to MaxSources
\* records, an apCorr argument of ApCorrs, and the default config with
\* doApplyApCorr set or not.
InitMeasure ==
    /\ NoDeterminer
    /\ \E b \in BOOLEAN : config = [DefaultConfig EXCEPT !.doApplyApCorr = b]
    /\ validated = "none"
    /\ mpc = "measure"
    /\ apCorr \in ApCorrs
    /\ fluxKeys = FluxKeys(config)
    /\ \E n \in 0..MaxSources : sources = [s \in 1..n |-> NewRecord]
    /\ mi = 0
    /\ fluxMeasured = <<>>

\* measure: self.measurer.apply(record, exposure) for the next record of
\* sources.  The measurement is external; it fills the record's flux fields.
Measure ==
    /\ mpc = "measure"
    /\ mi < Len(sources)
    /\ \E v \in FluxVals :
         /\ sources' = [sources EXCEPT ![mi + 1] =
                          [@ EXCEPT !.measured  = TRUE,
                                    !.flux      = [f \in FluxAlgorithms |-> v],
                                    !.fluxErrSq = [f \in FluxAlgorithms |-> 1]]]
         /\ fluxMeasured' = Append(fluxMeasured, v)
    /\ mi' = mi + 1
    /\ UNCHANGED <<config, validated, mpc, apCorr, fluxKeys>>
    /\ UNCHANGED determinerVars

\* run without its test of the apCorr argument.
RunIgnoringArgument ==
    /\ mpc = "measure"
    /\ mi = Len(sources)
    /\ IF config.doApplyApCorr
       THEN mpc' = "apcorr" /\ mi' = 0
       ELSE mpc' = "done" /\ mi' = mi
    /\ UNCHANGED <<config, validated, apCorr, fluxKeys, sources, fluxMeasured>>
    /\ UNCHANGED determinerVars

\* run, once measure has returned: if self.config.doApplyApCorr and apCorr
Run ==
    /\ mpc = "measure"
    /\ mi = Len(sources)
    /\ IF config.doApplyApCorr /\ Truthy(apCorr)
       THEN mpc' = "apcorr" /\ mi' = 0
       ELSE mpc' = "done" /\ mi' = mi
    /\ UNCHANGED <<config, validated, apCorr, fluxKeys, sources, fluxMeasured>>
    /\ UNCHANGED determinerVars

\* applyApCorr for the next source: every flux of fluxKeys is multiplied by
\* corr, its error becomes (fluxErr**2 * corr**2 + flux**2 * corrErr**2)**0.5,
\* and corr and corrErr are stored in the record.
ApplyApCorr ==
    /\ mpc = "apcorr"
    /\ mi < Len(sources)
    /\ \E c \in CorrVals :
         LET corr    == c[1]
             corrErr == c[2]
             src     == sources[mi + 1]
         IN  sources' = [sources EXCEPT ![mi + 1] =
                 [@ EXCEPT
                    !.flux      = [f \in FluxAlgorithms |->
                                     IF f \in fluxKeys THEN src.flux[f] * corr
                                     ELSE src.flux[f]],
                    !.fluxErrSq = [f \in FluxAlgorithms |->
                                     IF f \in fluxKeys
                                     THEN src.fluxErrSq[f] * corr * corr
                                          + src.flux[f] * src.flux[f] * corrErr * corrErr
                                     ELSE src.fluxErrSq[f]],
                    !.apcorr    = corr,
                    !.apcorrErr = corrErr]]
    /\ mi' = mi + 1
    /\ UNCHANGED <<config, validated, mpc, apCorr, fluxKeys, fluxMeasured>>
    /\ UNCHANGED determinerVars

\* applyApCorr and run return.
ApplyApCorrReturn ==
    /\ mpc = "apcorr"
    /\ mi = Len(sources)
    /\ mpc' = "done"
    /\ UNCHANGED <<config, validated, apCorr, fluxKeys, sources, mi, fluxMeasured>>
    /\ UNCHANGED determinerVars

NextMeasure ==
    \/ Measure
    \/ Run
    \/ ApplyApCorr
    \/ ApplyApCorrReturn

SpecMeasure == InitMeasure /\ [][NextMeasure]_vars


\* ------------------------------------------------------------------- claims

BadNow == {c \in Cands : status[c] = "BAD"}

RunEnded == pc \in {"done", "error"}

InRound == pc \in {"fit", "reset", "chi2", "residuals", "spatial"}

C2_OneExtraFit ==
    /\ [](pc = "done" => /\ nFit = nIterForPsf + 1
                         /\ nChi2 = nIterForPsf /\ nSpatial = nIterForPsf
                         /\ returned = psf
                         /\ returned.fit = nIterForPsf + 1
                         /\ returned.stars = Cands \ BadNow)
    /\ [][(pc \in {"lastfit", "finalize"}) => (status' = status)]_vars

\* C2's case: a run of two rounds returns the model of its third fit, which
\* left a rejected candidate out.
C2_Witness ==
    pc = "done" /\ nIterForPsf = 2 /\ returned.fit = 3 /\ returned.stars # Cands

\* C3, as stated: in every round the reset comes first, then the fit, the
\* chi-square rule and the spatial rule, so that inside the loop no step has
\* been taken more often than the step before it.
C3_ResetBeforeFit ==
    InRound => (nReset >= nFit /\ nFit >= nChi2 /\ nChi2 >= nSpatial)

\* C3, amended: in every round the fit comes first, then the reset, the
\* chi-square rule and the spatial rule.  In round iter, the fit is the first
\* step to have been taken iter + 1 times, then the reset, then the chi-square
\* pass; every candidate is UNKNOWN between the reset and the chi-square rule.
C3_FitResetChi2Spatial ==
    /\ pc = "fit"   => nFit = iter /\ nReset = iter /\ nChi2 = iter /\ nSpatial = iter
    /\ pc = "reset" => nFit = iter + 1 /\ nReset = iter /\ nChi2 = iter /\ nSpatial = iter
    /\ pc = "chi2"  => /\ nFit = iter + 1 /\ nReset = iter + 1
                       /\ nChi2 = iter /\ nSpatial = iter
                       /\ \A c \in Cands : status[c] = "UNKNOWN"
    /\ pc \in {"residuals", "spatial"}
                    => /\ nFit = iter + 1 /\ nReset = iter + 1
                       /\ nChi2 = iter + 1 /\ nSpatial = iter

\* C3's case: the second round has gone through all its steps.
C3_Witness ==
    pc = "spatial" /\ iter = 1 /\ k = NKernelParameters /\ nFit = 2 /\ nReset = 2

\* C4, as stated: a candidate set BAD by a rule in some round is left out of
\* every later fit of the run.  Fit n comes after the rounds 1..n-1.
C4_MonotonicRejection ==
    psf.fit >= 2 =>
        \A r \in 1..(psf.fit - 1) : rejectedIn[r] \cap psf.stars = {}

\* C4, amended: a candidate set BAD by a rule in a round is left out of the
\* next fit (the fit of the following round, or the fit after the loop): fit n
\* uses exactly the candidates that round n-1 did not set BAD.
C4_ExcludedFromNextFit ==
    psf.fit >= 2 => psf.stars = Cands \ rejectedIn[psf.fit - 1]

\* C4's case: the third fit leaves out a candidate rejected in the second
\* round and uses one that was rejected in the first.
C4_Witness ==
    /\ psf.fit = 3
    /\ rejectedIn[2] # {}
    /\ rejectedIn[1] \cap psf.stars # {}

\* C5: in the spatial pass no residual is computed for a candidate that the
\* chi-square rule set BAD in the same round.
C5_Chi2RejectedHaveNoResidual ==
    pc = "spatial" => chiMarked \cap Range(candidates) = {}

\* C6: from the reset to the end of the round a status changes only from
\* UNKNOWN to BAD, and the candidates a rule set BAD in the round are BAD for
\* the rest of it.
C6_NoReadmissionWithinRound ==
    /\ [](pc \in {"residuals", "spatial"}
            => \A c \in rejectedIn[Len(rejectedIn)] : status[c] = "BAD")
    /\ [][(pc \in {"chi2", "residuals", "spatial"})
            => \A c \in Cands :
                 status'[c] # status[c] => (status[c] = "UNKNOWN" /\ status'[c] = "BAD")]_vars

\* C6's case: at the end of a round, a candidate the chi-square rule rejected
\* and one only the spatial rule rejected are both BAD.
C6_Witness ==
    /\ pc = "spatial" /\ k = NKernelParameters
    /\ chiMarked # {}
    /\ BadNow \ chiMarked # {}

\* round(x + 0.5) for x = num / den >= 0, halves away from zero
RoundPlusHalf(num, den) == (num + den) \div den

Clamp(x, lo, hi) == IF x < lo THEN lo ELSE IF x > hi THEN hi ELSE x

\* C7, as stated: in round j of sK (counted from 1) each rule sets BAD
\* round(sP * j / sK + 0.5) candidates, clamped to [0, sP].
C7_RoundedCount ==
    \A j \in 1..Len(sChi) :
        /\ sChi[j] = Clamp(RoundPlusHalf(sP * j, sK), 0, sP)
        /\ sSpatial[j] = Clamp(RoundPlusHalf(sP * j, sK), 0, sP)

\* C7, amended: in round j of sK (counted from 1) each rule sets BAD the
\* integer quotient of sP * j by sK: the largest n with n * sK <= sP * j.
C7_IntegerQuotient ==
    \A j \in 1..Len(sChi) :
        /\ sChi[j] * sK <= sP * j /\ sP * j < (sChi[j] + 1) * sK
        /\ sSpatial[j] = sChi[j]
        /\ sChi[j] \in 0..sP

\* C7's case: a pool of 3 in the first of 2 rounds: 1 is rejected (1.5 cut).
C7_Witness ==
    sP = 3 /\ sK = 2 /\ sIter = 1 /\ sChi = <<1>> /\ sSpatial = <<1>>

\* C8, as stated: for a pool of 10 in each of 5 rounds the chi-square rule
\* sets BAD 1, 3, 5, 7, 10 candidates.
C8_Counts_1_3_5_7_10 ==
    (sP = 10 /\ sK = 5 /\ sIter = 5) => sChi = <<1, 3, 5, 7, 10>>

\* C8, amended: for a pool of 10 in each of 5 rounds the chi-square rule sets
\* BAD 2, 4, 6, 8, 10 candidates.
C8_Counts_2_4_6_8_10 ==
    (sP = 10 /\ sK = 5 /\ sIter = 5) => sChi = <<2, 4, 6, 8, 10>>

\* C8's case: the five rounds on a pool of 10 are done.
C8_Witness ==
    sP = 10 /\ sK = 5 /\ sIter = 5 /\ Len(sChi) = 5

\* C9: for a fixed pool size the number a rule rejects never decreases from
\* one round to the next, never exceeds the pool, and is the whole pool in the
\* last round.
C9_Ramp ==
    \A j \in 1..Len(sChi) :
        /\ sChi[j] <= sP /\ sSpatial[j] <= sP
        /\ j > 1 => (sChi[j - 1] <= sChi[j] /\ sSpatial[j - 1] <= sSpatial[j])
        /\ j = sK => (sChi[j] = sP /\ sSpatial[j] = sP)

\* C9's case: a pool of 2 over 3 rounds: 0, then 1, then all 2.
C9_Witness ==
    sP = 2 /\ sK = 3 /\ sIter = 3 /\ sChi = <<0, 1, 2>> /\ sSpatial = <<0, 1, 2>>

\* C10, as stated: the chi-square pool holds exactly the candidates whose
\* chi-square is negative, or is non-negative, not NaN and above the threshold.
C10_PoolWithoutNaN ==
    pc = "residuals" =>
        Range(badCandidates) =
            {c \in Cands : chi2[c] # NaN /\ (chi2[c] < 0 \/ chi2[c] > Chi2Threshold)}

\* C10, amended: the chi-square pool holds exactly the candidates whose
\* chi-square is negative, is above the threshold, or is NaN; building it
\* raises nothing.
C10_PoolWithNaN ==
    pc = "residuals" =>
        /\ Range(badCandidates) =
             {c \in Cands : chi2[c] = NaN
                            \/ (chi2[c] # NaN /\ (chi2[c] < 0 \/ chi2[c] > Chi2Threshold))}
        /\ Len(badCandidates) = Cardinality(Range(badCandidates))
        /\ error = "none"

\* C10's case: the pool was built from a negative chi-square, a NaN and one at
\* the threshold.
C10_Witness ==
    /\ pc = "residuals"
    /\ \E a, b, c \in Cands : chi2[a] = -1 /\ chi2[b] = NaN /\ chi2[c] = Chi2Threshold

PastSizing == pc \notin {"start", "size", "error"}

\* C11: determinePsf called with an empty candidate list raises before
\* anything else is done: the run is at its entry or has ended with the
\* "no candidates" error, no candidate is in the cell set, self._kernelSize is
\* the configured one, no stamp size is set, no fit is made, no status is reset
\* and nothing is returned.
C11_EmptyListRaisesFirst ==
    nCand = 0 =>
        /\ pc \in {"start", "error"}
        /\ pc = "error" => error = "NoCandidates"
        /\ pc = "start" => error = "none"
        /\ psfCellSet = {}
        /\ kernelSize = policy.kernelSize
        /\ nSetWidth = 0 /\ nSetHeight = 0
        /\ nFit = 0 /\ nReset = 0 /\ nChi2 = 0 /\ nSpatial = 0
        /\ psf = NoPsf /\ returned = NoPsf

\* C11's case: the run on an empty list has ended with the error.
C11_Witness ==
    nCand = 0 /\ pc = "error" /\ error = "NoCandidates"

\* The number of elements of s below v, and of those not above it.
CountBelow(s, v) == Cardinality({i \in 1..Len(s) : s[i] < v})

CountAtMost(s, v) == Cardinality({i \in 1..Len(s) : s[i] <= v})

\* The r-th smallest element of s.
OrderStatistic(s, r) ==
    CHOOSE v \in Range(s) : CountBelow(s, v) < r /\ r <= CountAtMost(s, v)

\* Twice the median of s.
TwiceMedianOf(s) ==
    IF Len(s) % 2 = 1 THEN 2 * OrderStatistic(s, (Len(s) + 1) \div 2)
    ELSE OrderStatistic(s, Len(s) \div 2) + OrderStatistic(s, Len(s) \div 2 + 1)

\* sz = 2 * floor(ks * sqrt(m) + 0.5) + 1 for m = twiceM / 2: sz is odd and
\* sz - 2 <= 2 * ks * sqrt(m) < sz.
IsScaledSize(sz, ks, twiceM) ==
    /\ sz % 2 = 1 /\ sz >= 1
    /\ sz = 1 \/ (sz - 2) * (sz - 2) <= 2 * ks * ks * twiceM
    /\ sz * sz > 2 * ks * ks * twiceM

\* C12: for a configured kernelSize below 15 the kernel size of the run is
\* 2 * floor(kernelSize * sqrt(median of the axes) + 0.5) + 1 clamped to
\* [kernelSizeMin, kernelSizeMax]; for the axes 1, 4, 9, kernelSize 5,
\* kernelSizeMin 5 and kernelSizeMax 99 it is 21.
C12_ScaledAndClamped ==
    (PastSizing /\ policy.kernelSize < AbsoluteSizeThreshold) =>
        /\ \E sz \in 1..(2 * policy.kernelSize * TwiceMedianOf(sizes) + 3) :
             /\ IsScaledSize(sz, policy.kernelSize, TwiceMedianOf(sizes))
             /\ kernelSize = Clamp(sz, policy.kernelSizeMin, policy.kernelSizeMax)
        /\ (sizes = <<1, 4, 9>> /\ policy.kernelSize = 5 /\ policy.kernelSizeMin = 5
              /\ policy.kernelSizeMax = 99) => kernelSize = 21

\* C12's case: the size for the axes 1, 4, 9 and kernelSize 5 is computed.
C12_Witness ==
    /\ pc = "stamp" /\ sizes = <<1, 4, 9>>
    /\ policy = [kernelSize |-> 5, kernelSizeMin |-> 5, kernelSizeMax |-> 99]
    /\ kernelSize = 21

\* C13: for every policy and every non-empty candidate list the kernel size of
\* the run is odd.
C13_SizeIsOdd ==
    PastSizing => kernelSize % 2 = 1

\* C14: a configured kernelSize of 15 or more is the kernel size of the run,
\* whatever the axes and the configured minimum and maximum are.
C14_AbsoluteSizeKept ==
    (PastSizing /\ policy.kernelSize >= AbsoluteSizeThreshold) =>
        kernelSize = policy.kernelSize

\* C14's case: kernelSize 15 is kept although the scaled size would have been
\* larger and clamped to kernelSizeMax.
C14_Witness ==
    /\ pc = "stamp" /\ policy.kernelSize = 15 /\ policy.kernelSizeMax = 11
    /\ kernelSize = 15 /\ Len(sizes) = 3

\* C15: setHeight and setWidth are each called once in a run, after the kernel
\* size is computed and before the first fit, with that size; every stamp a
\* candidate returns afterwards has that width and height.
C15_StampSizeSetOnceBeforeFit ==
    /\ nSetWidth <= 1 /\ nSetHeight <= 1
    /\ pc \in {"start", "size", "stamp"}
         => nSetWidth = 0 /\ nSetHeight = 0 /\ nFit = 0
    /\ (nFit > 0 \/ pc \notin {"start", "size", "stamp", "error"}) =>
         /\ nSetWidth = 1 /\ nSetHeight = 1
         /\ kernelSize = NewKernelSize(policy.kernelSize, policy.kernelSizeMin,
                                       policy.kernelSizeMax, sizes)
         /\ stampWidth = kernelSize /\ stampHeight = kernelSize
    /\ \A d \in stampDims : d = <<kernelSize, kernelSize>>

\* C15's case: in the second round the three candidates have returned stamps
\* of the scaled size, 21 by 21.
C15_Witness ==
    /\ pc = "spatial" /\ iter = 1 /\ nCand = 3
    /\ stampDims = {<<21, 21>>}
    /\ nSetWidth = 1 /\ nSetHeight = 1

\* C16: a run in which every candidate has been rejected does not return a
\* model.  Every model was fit to at least one candidate; the fit that finds
\* every candidate BAD (the first fit after the round that rejected them all)
\* raises and makes no model; a run that ended by an exception returned
\* nothing; and every candidate is BAD only after the rules of a round, up to
\* the fit that raises.
C16_AllRejectedFailsFast ==
    /\ psf.fit > 0 => psf.stars # {}
    /\ pc = "done" => (returned = psf /\ returned.stars # {} /\ BadNow # Cands)
    /\ pc = "error" => returned = NoPsf
    /\ error = "FitFailed" =>
         /\ pc = "error" /\ nCand > 0 /\ BadNow = Cands
         /\ rejectedIn[Len(rejectedIn)] = Cands
         /\ psf.fit = nFit - 1
    /\ (nCand > 0 /\ BadNow = Cands) =>
         pc \in {"residuals", "spatial", "fit", "lastfit", "error"}

\* C16's case: the only round rejected all three candidates and the fit after
\* the loop raised.
C16_Witness ==
    /\ pc = "error" /\ error = "FitFailed"
    /\ nCand = 3 /\ nIterForPsf = 1 /\ nFit = 2 /\ nSpatial = 1
    /\ BadNow = Cands

\* C17: a candidate whose stamp cannot be had in the spatial-residual pass is
\* the only one skipped (it has no residual and the spatial rule does not
\* reject it in that round), and the failure does not end the run: the round
\* goes on to the spatial rule.
C17_StampFailureSkipsOneOnly ==
    /\ pc = "spatial" =>
         /\ Range(candidates) = Cands \ noStamp
         /\ (BadNow \cap noStamp) \subseteq chiMarked
    /\ noStamp # {} => pc = "spatial"

\* C18: on return numAvailStars is the number of candidates in the cell set,
\* numGoodStars the number of those that are not BAD, and numGoodStars plus
\* the number of BAD candidates is numAvailStars.
C18_GoodPlusBadIsAvailable ==
    pc = "done" =>
        /\ numAvailStars = Cardinality(psfCellSet)
        /\ numGoodStars = Cardinality({c \in psfCellSet : status[c] # "BAD"})
        /\ numGoodStars + Cardinality({c \in psfCellSet : status[c] = "BAD"})
             = numAvailStars

\* C18's case: a run on three candidates returns with one that is not BAD.
C18_Witness ==
    pc = "done" /\ numAvailStars = 3 /\ numGoodStars = 1 /\ Cardinality(BadNow) = 2

\* C19: on return the source of every candidate that is not BAD (the ones
\* counted in numGoodStars, whether their status is GOOD or UNKNOWN) has the
\* PSFSTAR flag, and the flag of the source of a BAD candidate is as it was
\* when determinePsf was entered; before the count no flag is changed.
C19_PsfStarOnGoodOnly ==
    /\ pc # "done" => \A c \in Cands : psfStar[c] = FlaggedAtEntry(c)
    /\ pc = "done" =>
         /\ \A c \in Cands :
              /\ status[c] # "BAD" => psfStar[c]
              /\ status[c] = "BAD" => psfStar[c] = FlaggedAtEntry(c)
         /\ numGoodStars
              = Cardinality({c \in Cands : psfStar[c] /\ status[c] # "BAD"})

\* C19's case: a run returns with a BAD candidate whose source had the flag,
\* a BAD one whose source has none, and a star whose source got it.
C19_Witness ==
    /\ pc = "done"
    /\ \E a, b, c \in Cands :
         /\ status[a] = "BAD" /\ psfStar[a]
         /\ status[b] = "BAD" /\ ~psfStar[b]
         /\ status[c] # "BAD" /\ psfStar[c] /\ ~FlaggedAtEntry(c)

\* C30: with nIterForPsf = 0 and a candidate list that is not empty the loop
\* body never runs: no reset, no rejection pass, no numBad is computed (so
\* nothing is divided by the iteration count), no status changes, nothing is
\* raised, and the run makes one fit, the final one, whose model it returns.
C30_ZeroIterationsOneFit ==
    (nIterForPsf = 0 /\ nCand > 0) =>
        /\ ~InRound
        /\ nReset = 0 /\ nChi2 = 0 /\ nSpatial = 0
        /\ badCandidates = <<>> /\ numBad = 0 /\ rejectedIn = <<>>
        /\ \A c \in Cands : status[c] = "UNKNOWN"
        /\ error = "none"
        /\ nFit <= 1
        /\ pc \in {"finalize", "done"} => (nFit = 1 /\ psf = [fit |-> 1, stars |-> Cands])
        /\ pc = "done" => returned = psf

\* C30's case: a run with nIterForPsf = 0 on three candidates has returned.
C30_Witness ==
    nIterForPsf = 0 /\ nCand = 3 /\ pc = "done" /\ nFit = 1 /\ returned.fit = 1

\* C25: the reset of a round sets every candidate of the cell set UNKNOWN, the
\* ones that were BAD at the end of the round before too: right after a reset
\* no candidate is BAD, and from then on a candidate is BAD only if a rule of
\* this round selected it, so one that was BAD before and is selected by
\* neither rule ends the round with a status other than BAD.
C25_ResetForgivesAll ==
    /\ pc = "chi2" => \A c \in Cands : status[c] = "UNKNOWN"
    /\ pc \in {"chi2", "residuals", "spatial"} =>
         \A c \in Cands :
             status[c] = "BAD" => c \in rejectedIn[Len(rejectedIn)]

\* C25's case: the second round has ended, and a candidate the first round
\* rejected, which no rule selected in the second, is not BAD.
C25_Witness ==
    /\ pc = "spatial" /\ k = NKernelParameters
    /\ Len(rejectedIn) = 2
    /\ \E c \in rejectedIn[1] : c \notin rejectedIn[2] /\ status[c] = "UNKNOWN"

\* C24, as stated: the chi-square rule rejects worst first.  After the rule
\* has run in a round, every pool member whose chi-square is strictly larger
\* than that of a member the rule set BAD is set BAD by it too; so a member
\* with a negative chi-square is rejected only when every member above the
\* threshold is.
C24_WorstFirst ==
    pc \in {"residuals", "spatial"} =>
        \A a \in chiMarked : \A b \in Cands :
            (IsBadChi2(chi2[b]) /\ Gt(chi2[b], chi2[a])) => b \in chiMarked

\* C26, as stated: the chi-square the rule of a round compares with the
\* threshold is, for every candidate the rule examines (every candidate of the
\* cell set), a value the fit of that round assigned: when the rule is about
\* to run, the model in hand is the one of this round's fit and that fit
\* visited every candidate.
C26_Chi2FromThisRoundsFit ==
    pc = "chi2" =>
        /\ psf.fit = nFit
        /\ nFit = iter + 1
        /\ \A c \in Cands : c \in psf.stars

\* C29, as stated: a run does not change the configured base size, so every
\* call of determinePsf on the same determiner with the same candidates starts
\* from the policy's kernelSize and uses the same kernel size.
C29_SameKernelSizeEveryCall ==
    /\ pc \in {"start", "size"} => kernelSize = policy.kernelSize
    /\ \A i, j \in DOMAIN kernelSizeUsed : kernelSizeUsed[i] = kernelSizeUsed[j]

\* The distance of candidate c's residual from the clipped mean, for the
\* component logged in entry e, and whether it is beyond spatialReject times
\* the floored standard deviation.
Deviation(e, c) == Fabs(e.col[c] - e.mean)

Outlier(e, c) == Deviation(e, c) > SpatialRejectSigma * Max(RmsFloor, e.stdev)

\* The candidates the loop of the component handled last has set BAD: the
\* first min(numBad, len) members of its sorted pool.
WorstOfPool ==
    {candidates[badCandidates[i]] : i \in 1..Min(numBad, Len(badCandidates))}

\* C27, the pool and the order: after component k has been handled, its pool
\* is every candidate with a residual in this round whose residual is an
\* outlier of that component, BAD already or not, sorted by distance from the
\* mean, largest first, and the first min(numBad, len) of it are BAD.
C27_PoolOfComponent ==
    (pc = "spatial" /\ k >= 1) =>
        LET e == spatialLog[k]
        IN  /\ Len(spatialLog) = k
            /\ DOMAIN e.col = Range(candidates)
            /\ {candidates[i] : i \in Range(badCandidates)}
                 = {c \in Range(candidates) : Outlier(e, c)}
            /\ Len(badCandidates) = Cardinality(Range(badCandidates))
            /\ \A i, j \in 1..Len(badCandidates) :
                 i < j => Deviation(e, candidates[badCandidates[i]])
                            >= Deviation(e, candidates[badCandidates[j]])
            /\ \A c \in WorstOfPool : status[c] = "BAD"

\* C27, the status: handling a component leaves BAD exactly the candidates
\* that were BAD before it and the worst numBad of its pool.
C27_StepOfComponent ==
    (pc = "spatial" /\ k' = k + 1) => BadNow' = BadNow \cup WorstOfPool'

C28_NoFalseRejection ==
    pc \in {"residuals", "spatial"} =>
        \A c \in Cands :
            status[c] = "BAD" =>
                \/ chi2[c] = NaN
                \/ chi2[c] < 0
                \/ chi2[c] > Chi2Threshold
                \/ /\ c \in Range(candidates)
                   /\ \E j \in DOMAIN spatialLog : Outlier(spatialLog[j], c)

\* C28's case: a round has ended with a candidate that only the spatial rule
\* rejected and with another, at the chi-square threshold and within the
\* limits of both components, that is not BAD.
C28_Witness ==
    /\ pc = "spatial" /\ k = NKernelParameters
    /\ \E a, b \in Range(candidates) :
         /\ status[a] = "BAD" /\ a \notin chiMarked
         /\ chi2[b] = Chi2Threshold /\ status[b] = "UNKNOWN"
         /\ \A j \in DOMAIN spatialLog : ~Outlier(spatialLog[j], b)

\* Whether validate has a reason to reject the config: one of the cases of C23.
C23_Case(cfg) ==
    LET Missing(slot) == slot # None /\ slot \notin cfg.algorithms
    IN  \/ cfg.centroider \in cfg.algorithms
        \/ Missing(cfg.slots.centroid) /\ cfg.slots.centroid # cfg.centroider
        \/ Missing(cfg.slots.shape)
        \/ Missing(cfg.slots.psfFlux) \/ Missing(cfg.slots.apFlux)
        \/ Missing(cfg.slots.modelFlux) \/ Missing(cfg.slots.instFlux)

\* C23, as stated: validate raises ValueError when the centroider is also in
\* the algorithms, when the centroid slot names an algorithm that is neither in
\* the algorithms nor the centroider, and when the shape slot or a flux slot
\* names an algorithm that is not in the algorithms; otherwise (a slot that is
\* None is no error) it returns.
C23_ValidateRaisesValueError ==
    validated # "none" =>
        validated = (IF C23_Case(config) THEN "ValueError" ELSE "ok")

\* Whether run is to apply the aperture correction, by C22.
C22_ToApply == config.doApplyApCorr /\ apCorr # None

\* C22, the states: the aperture correction touches a record only when
\* config.doApplyApCorr is True and apCorr is not None, and only after every
\* record has been measured; otherwise every flux field is as measure left it
\* and no aperture-correction field is set; and when run has returned every
\* record is measured and, if the correction was to be applied, corrected.
C22_MeasuredThenCorrected ==
    /\ (mpc = "apcorr" \/ \E s \in DOMAIN sources : sources[s].apcorr # 0) =>
         /\ C22_ToApply
         /\ \A s \in DOMAIN sources : sources[s].measured
    /\ ~C22_ToApply =>
         \A s \in DOMAIN sources :
             /\ sources[s].apcorr = 0 /\ sources[s].apcorrErr = 0
             /\ sources[s].measured =>
                  \A f \in FluxAlgorithms :
                      /\ sources[s].flux[f] = fluxMeasured[s]
                      /\ sources[s].fluxErrSq[f] = 1
    /\ mpc = "done" =>
         \A s \in DOMAIN sources :
             /\ sources[s].measured
             /\ C22_ToApply => sources[s].apcorr # 0

\* C22, the steps: run leaves measure only when every record is measured, and
\* goes on to applyApCorr if and only if the correction is to be applied.
C22_ApplyIffAsked ==
    (mpc = "measure" /\ mpc' # "measure") =>
        /\ \A s \in DOMAIN sources : sources[s].measured
        /\ mpc' = "apcorr" <=> C22_ToApply

C31_RatingsOnReturn ==
    /\ (pc # "done" \/ ~sdqaRatingSet.supplied) => sdqaRatingSet.ratings = <<>>
    /\ (pc = "done" /\ sdqaRatingSet.supplied) =>
         /\ nFit = nIterForPsf + 1
         /\ <<"phot.psf.spatialFitChi2", nFit>> \in Range(sdqaRatingSet.ratings)
         /\ <<"phot.psf.numGoodStars", Cardinality(Cands \ BadNow)>>
              \in Range(sdqaRatingSet.ratings)
         /\ <<"phot.psf.numAvailStars", nCand>> \in Range(sdqaRatingSet.ratings)

\* C31, the steps: whether a rating set was supplied does not change, and the
\* step that counts the stars and returns changes
\* no status, no chi-square and not the model, which is the one returned.
C31_FinalizerFrame ==
    /\ sdqaRatingSet'.supplied = sdqaRatingSet.supplied
    /\ pc = "finalize" =>
         /\ status' = status
         /\ chi2' = chi2
         /\ psf' = psf
         /\ returned' = psf

\* C31: the finalizer changes no candidate and not the model, emits nothing
\* without a sink, and gives a sink the final fit's chi-square and the counts.
C31_FinalizerOnlyReports == []C31_RatingsOnReturn /\ [][C31_FinalizerFrame]_vars

\* C31's case: a run of two rounds on two candidates, called with a rating
\* set, has returned with one candidate BAD: the set holds the chi-square of
\* the third fit, one good star and two available ones.
C31_Witness ==
    /\ pc = "done" /\ nIterForPsf = 2 /\ nCand = 2
    /\ sdqaRatingSet.supplied
    /\ Cardinality(BadNow) = 1
    /\ <<"phot.psf.spatialFitChi2", 3>> \in Range(sdqaRatingSet.ratings)
    /\ <<"phot.psf.numGoodStars", 1>> \in Range(sdqaRatingSet.ratings)
    /\ <<"phot.psf.numAvailStars", 2>> \in Range(sdqaRatingSet.ratings)

====
